---- MODULE Spec2Model ----
(***************************************************************************)
(* A model of the FeedbackAI REST service (src/server.js): the in-memory   *)
(* feedback store with its id counter, the create / update / delete / get  *)
(* handlers, the list query (filter, sort, paginate), the statistics, the   *)
(* health check and the AI assistant with its call to the provider.        *)
(*                                                                         *)
(* Strings that the code inspects character by character (title,           *)
(* description, email) are sequences of one-character strings.  Enum-like  *)
(* strings (type, priority, status, query parameters) are TLA+ strings.    *)
(* A JSON request body is a function whose DOMAIN is the set of keys that  *)
(* are present in the body.  Timestamps are integers (milliseconds):       *)
(* toISOString() keeps exactly the millisecond value and new Date(iso)     *)
(* reads it back, so comparing the Dates compares these integers.          *)
(*                                                                         *)
(* Spec is the handlers by themselves, for the requests that the rate      *)
(* limiters admit.  LimiterSpec puts the two limiters in front of the      *)
(* handlers of three routes, with the budgets of the source.  FairSpec is  *)
(* Spec with the fairness of the event loop.                               *)
(***************************************************************************)
EXTENDS Integers, Sequences, FiniteSets, TLC

VARIABLES
    feedback,           \* src/server.js:14  the store, newest first
    feedbackIdCounter,  \* src/server.js:15  the next id to hand out
    now,                \* the wall clock read by new Date(), in ms
    request,            \* the request being served, NoRequest between two requests
    response,           \* the response to it
    issued,             \* history: ids returned by successful creates, in call order
    deletedIds,         \* history: ids of the records that were deleted
    apiKey,             \* src/server.js:287  process.env.OPENAI_API_KEY is set
    pending,            \* src/server.js:289  the AI requests that await axios.post
    hits,               \* src/server.js:27   limiter: requests counted per client
    aiHits              \* src/server.js:35   aiLimiter: requests counted per client

vars ==
    <<feedback, feedbackIdCounter, now, request, response, issued, deletedIds,
      apiKey, pending, hits, aiHits>>

----------------------------------------------------------------------------
(* Bounds of the model *)

MaxId == 2          \* creates are explored while feedbackIdCounter <= MaxId
MaxTime == 1        \* the clock runs over 0..MaxTime
MaxPending == 1     \* calls to the provider that are in flight at once
MaxOver == 1        \* requests of a client counted beyond the budget of a limiter
MaxOthers == 1      \* requests counted for the clients other than the busiest one

----------------------------------------------------------------------------
(* Program constants *)

TitleMax == 200
DescriptionMax == 2000
QuestionMax == 500
GeneralMax == 100
AiMax == 10

Types == {"bug", "feature", "improvement", "other"}
Priorities == {"low", "medium", "high"}
Statuses == {"pending", "reviewed", "resolved"}

NoRequest == [op |-> "none"]
NoResponse == [op |-> "none"]

----------------------------------------------------------------------------
(* Strings as character sequences *)

Space == " "

RECURSIVE TrimLeft(_)
TrimLeft(s) ==
    IF s # <<>> /\ Head(s) = Space THEN TrimLeft(Tail(s)) ELSE s

RECURSIVE TrimRight(_)
TrimRight(s) ==
    IF s # <<>> /\ s[Len(s)] = Space THEN TrimRight(SubSeq(s, 1, Len(s) - 1)) ELSE s

\* String.prototype.trim / the validator's trim() sanitizer
Trim(s) == TrimRight(TrimLeft(s))

LowerChar(c) == IF c = "U" THEN "u" ELSE IF c = "X" THEN "x" ELSE c

\* String.prototype.toLowerCase
ToLowerCase(s) == [i \in 1..Len(s) |-> LowerChar(s[i])]

Repeat(c, n) == [i \in 1..n |-> c]

----------------------------------------------------------------------------
(* Request bodies *)

Has(b, k) == k \in DOMAIN b

\* express-validator reads a missing field as the empty string
TextField(b, k) == IF Has(b, k) THEN b[k] ELSE <<>>
EnumField(b, k) == IF Has(b, k) THEN b[k] ELSE ""

\* body(k).trim().isLength({min, max})
IsLength(s, min, max) == Len(s) >= min /\ Len(s) <= max

LastAt(s) ==
    IF \E i \in 1..Len(s) : s[i] = "@"
    THEN CHOOSE i \in 1..Len(s) : s[i] = "@" /\ \A j \in (i + 1)..Len(s) : s[j] # "@"
    ELSE 0

LastDot(s) ==
    IF \E i \in 1..Len(s) : s[i] = "."
    THEN CHOOSE i \in 1..Len(s) : s[i] = "." /\ \A j \in (i + 1)..Len(s) : s[j] # "."
    ELSE 0

\* the domain part: dot-separated non-empty labels and a top-level label of
\* two letters or more
IsFQDN(d) ==
    /\ LastDot(d) > 1
    /\ Len(d) - LastDot(d) >= 2
    /\ \A i \in 1..Len(d) : d[i] # Space
    /\ \A i \in 1..(Len(d) - 1) : ~(d[i] = "." /\ d[i + 1] = ".")

\* body('email').isEmail(): a non-empty user part without blanks, "@", a domain
IsEmail(s) ==
    LET at == LastAt(s) IN
    /\ at > 1
    /\ \A i \in 1..(at - 1) : s[i] \notin {Space, "@"}
    /\ IsFQDN(SubSeq(s, at + 1, Len(s)))

TitleError == [path |-> "title", msg |-> "Title must be 1-200 characters"]
DescriptionError == [path |-> "description", msg |-> "Description must be 1-2000 characters"]
TypeError == [path |-> "type", msg |-> "Invalid feedback type"]
PriorityError == [path |-> "priority", msg |-> "Invalid priority level"]
EmailError == [path |-> "email", msg |-> "Valid email is required"]

TitleOk(b) == IsLength(Trim(TextField(b, "title")), 1, TitleMax)
DescriptionOk(b) == IsLength(Trim(TextField(b, "description")), 1, DescriptionMax)
TypeOk(b) == EnumField(b, "type") \in Types
PriorityOk(b) == EnumField(b, "priority") \in Priorities
EmailOk(b) == IsEmail(TextField(b, "email"))

\* a validation that stops at the first chain that fails
validateFeedbackFirstOnly(b) ==
    IF ~TitleOk(b) THEN <<TitleError>>
    ELSE IF ~DescriptionOk(b) THEN <<DescriptionError>>
    ELSE IF ~TypeOk(b) THEN <<TypeError>>
    ELSE IF ~PriorityOk(b) THEN <<PriorityError>>
    ELSE IF ~EmailOk(b) THEN <<EmailError>>
    ELSE <<>>

\* validateFeedback followed by validationResult(req).array(): the violations
\* of all five chains, in the order of the chains
validateFeedback(b) ==
    (IF TitleOk(b) THEN <<>> ELSE <<TitleError>>)
    \o (IF DescriptionOk(b) THEN <<>> ELSE <<DescriptionError>>)
    \o (IF TypeOk(b) THEN <<>> ELSE <<TypeError>>)
    \o (IF PriorityOk(b) THEN <<>> ELSE <<PriorityError>>)
    \o (IF EmailOk(b) THEN <<>> ELSE <<EmailError>>)

\* A body from one optional value per key: <<>> leaves the key out, <<v>> sets it
BodyOf(opts) ==
    [k \in {k \in DOMAIN opts : opts[k] # <<>>} |-> opts[k][1]]

\* b without key k
Without(b, k) == [x \in (DOMAIN b) \ {k} |-> b[x]]

BaseBody ==
    [ title       |-> <<Space, "a", Space>>,
      description |-> <<"d">>,
      type        |-> "bug",
      priority    |-> "low",
      email       |-> <<"U", "@", "x", ".", "i", "o">> ]

ValidBodies ==
    { [BaseBody EXCEPT !.type = ty, !.priority = p] :
        ty \in {"bug", "feature"}, p \in {"low", "high"} }

InvalidBodies ==
    { [BaseBody EXCEPT !.title = <<Space>>],
      [BaseBody EXCEPT !.description = <<>>],
      [BaseBody EXCEPT !.type = "bogus"],
      Without(BaseBody, "type"),
      [BaseBody EXCEPT !.priority = "urgent"],
      [BaseBody EXCEPT !.email = <<"u", "x", ".", "i", "o">>],
      [BaseBody EXCEPT !.title = Repeat("a", TitleMax + 1), !.email = <<"u", "@", "x">>] }

CreateBodies == ValidBodies \cup InvalidBodies

----------------------------------------------------------------------------
(* Routes and the rate limiters in front of them.  express-rate-limit keeps  *)
(* one counter per client address and fixed window: every request it sees   *)
(* adds one, a request whose count exceeds max is answered 429 with the     *)
(* message, and the counter starts again when the window has run out.       *)

CreateRoute == "POST /api/feedback"
UpdateRoute == "PUT /api/feedback/:id"
DeleteRoute == "DELETE /api/feedback/:id"
GetRoute == "GET /api/feedback/:id"
ListRoute == "GET /api/feedback"
AnalyticsRoute == "GET /api/analytics"
HealthRoute == "GET /api/health"
AskRoute == "POST /api/ai/ask"

\* req.ip, the key of both limiters
Clients == {"a", "b"}

GeneralMessage == "Too many requests from this IP, please try again later."
AiMessage == "Too many AI requests, please try again later."

\* a limiter that refuses the request that reaches max
ExceedsOrReaches(count, max) == count >= max

\* the count of a request is over the budget of its window
Exceeds(count, max) == count > max

\* aiLimiter installed for every route: app.use(aiLimiter)
hasAiLimiterAlways(route) == TRUE

\* the routes whose chain has aiLimiter (src/server.js:282)
hasAiLimiter(route) == route = AskRoute

tooMany(message) == [op |-> "limited", status |-> 429, message |-> message]

\* a limiter that answers 429 and calls next() all the same
ReadyThoughLimited(route) ==
    \/ request = NoRequest
    \/ request.op \in {"admitted", "limited"} /\ request.route = route

\* the server is between two requests, or the limiters have passed a request
\* for this route on to its handler
Ready(route) ==
    \/ request = NoRequest
    \/ request.op = "admitted" /\ request.route = route

\* a request of client c for a route arrives: app.use(limiter), and for the
\* AI route aiLimiter, the first middleware of the route
Receive(c, route, b) ==
    /\ request = NoRequest
    /\ hits[c] < GeneralMax + MaxOver
    /\ hasAiLimiter(route) => aiHits[c] < AiMax + MaxOver
    /\ \A d \in Clients \ {c} :
          \/ hits[c] < MaxOthers /\ aiHits[c] < MaxOthers
          \/ hits[d] <= MaxOthers /\ aiHits[d] <= MaxOthers
    /\ hits' = [hits EXCEPT ![c] = @ + 1]
    /\ IF Exceeds(hits[c] + 1, GeneralMax)
       THEN /\ request' = [op |-> "limited", client |-> c, route |-> route, body |-> b]
            /\ response' = tooMany(GeneralMessage)
            /\ UNCHANGED aiHits
       ELSE IF ~hasAiLimiter(route)
       THEN /\ request' = [op |-> "admitted", client |-> c, route |-> route, body |-> b]
            /\ response' = NoResponse
            /\ UNCHANGED aiHits
       ELSE /\ aiHits' = [aiHits EXCEPT ![c] = @ + 1]
            /\ IF Exceeds(aiHits[c] + 1, AiMax)
               THEN /\ request' = [op |-> "limited", client |-> c, route |-> route,
                                   body |-> b]
                    /\ response' = tooMany(AiMessage)
               ELSE /\ request' = [op |-> "admitted", client |-> c, route |-> route,
                                   body |-> b]
                    /\ response' = NoResponse
    /\ UNCHANGED <<feedback, feedbackIdCounter, now, issued, deletedIds, apiKey, pending>>

\* the window of client c at the general limiter has run out (windowMs of
\* 15 minutes, src/server.js:28)
Expire(c) ==
    /\ request = NoRequest
    /\ hits[c] > 0
    /\ hits' = [hits EXCEPT ![c] = 0]
    /\ UNCHANGED <<feedback, feedbackIdCounter, now, request, response, issued,
                   deletedIds, apiKey, pending, aiHits>>

\* the window of client c at the AI limiter has run out (windowMs of one
\* minute, src/server.js:36)
AiExpire(c) ==
    /\ request = NoRequest
    /\ aiHits[c] > 0
    /\ aiHits' = [aiHits EXCEPT ![c] = 0]
    /\ UNCHANGED <<feedback, feedbackIdCounter, now, request, response, issued,
                   deletedIds, apiKey, pending, hits>>

----------------------------------------------------------------------------
(* The store *)

\* a findIndex whose -1 is used as an index: it counts from the end of the array
findIndexFromEnd(store, id) ==
    IF \E i \in 1..Len(store) : store[i].id = id
    THEN CHOOSE i \in 1..Len(store) :
            store[i].id = id /\ \A j \in 1..(i - 1) : store[j].id # id
    ELSE Len(store)

\* feedback.findIndex(item => item.id === id): the first match, 0 for -1
findIndex(store, id) ==
    IF \E i \in 1..Len(store) : store[i].id = id
    THEN CHOOSE i \in 1..Len(store) :
            store[i].id = id /\ \A j \in 1..(i - 1) : store[j].id # id
    ELSE 0

\* a create that numbers by the size of the store
NextIdFromLength(store, counter) == Len(store) + 1

\* a create that increments before it reads: ++feedbackIdCounter
NextIdPreIncrement(store, counter) == counter + 1

\* the id a create takes: feedbackIdCounter++
NextId(store, counter) == counter

\* the object literal of POST /api/feedback; t1 and t2 are the two clock reads
newFeedback(b, id, t1, t2) ==
    [ id          |-> id,
      title       |-> Trim(b["title"]),
      description |-> Trim(b["description"]),
      type        |-> b["type"],
      priority    |-> b["priority"],
      email       |-> Trim(ToLowerCase(b["email"])),
      status      |-> "pending",
      createdAt   |-> t1,
      updatedAt   |-> t2 ]

\* feedback.push(newFeedback): the new record at the tail
push(store, rec) == store \o <<rec>>

\* feedback.unshift(newFeedback): the new record at the head
unshift(store, rec) == <<rec>> \o store

\* POST /api/feedback
Create(b, t2) ==
    /\ Ready(CreateRoute)
    /\ validateFeedback(b) # <<>> \/ feedbackIdCounter <= MaxId
    /\ t2 \in now..MaxTime
    /\ request' = [op |-> "create", body |-> b]
    /\ UNCHANGED <<apiKey, pending,
                   hits, aiHits>>
    /\ IF validateFeedback(b) # <<>>
       THEN /\ response' = [op |-> "create", status |-> 400, success |-> FALSE,
                            errors |-> validateFeedback(b)]
            /\ UNCHANGED <<feedback, feedbackIdCounter, now, issued, deletedIds>>
       ELSE LET id == NextId(feedback, feedbackIdCounter)
                rec == newFeedback(b, id, now, t2)
            IN  /\ feedbackIdCounter' = feedbackIdCounter + 1
                /\ feedback' = unshift(feedback, rec)
                /\ now' = t2
                /\ response' = [op |-> "create", status |-> 201, success |-> TRUE,
                                data |-> rec]
                /\ issued' = Append(issued, id)
                /\ UNCHANGED deletedIds

\* the keys of the body that PUT /api/feedback/:id applies
allowedUpdates == {"status", "priority"}

\* an update that copies every key of the body
updatesOfAnyKey(b) == b

\* updates = the body restricted to allowedUpdates
updatesOf(b) == [k \in (DOMAIN b) \cap allowedUpdates |-> b[k]]

\* an update that never rejects an empty set of updates
noValidUpdatesNever(updates) == FALSE

\* Object.keys(updates).length === 0
noValidUpdates(updates) == DOMAIN updates = {}

\* { ...feedback[feedbackIndex], ...updates, updatedAt: new Date().toISOString() }
applyUpdates(rec, updates, t) ==
    [k \in DOMAIN rec |->
        IF k = "updatedAt" THEN t
        ELSE IF k \in DOMAIN updates THEN updates[k]
        ELSE rec[k]]

UpdateBodies ==
    { BodyOf([status |-> s, priority |-> p, title |-> t]) :
        s \in { <<>>, <<"resolved">>, <<"bogus">> },
        p \in { <<>>, <<"high">> },
        t \in { <<>>, << <<"x">> >> } }

\* the ids a request path names (parseInt(req.params.id))
IdParams == 1..(MaxId + 1)

NotFound(op) ==
    [op |-> op, status |-> 404, success |-> FALSE, message |-> "Feedback not found"]

\* PUT /api/feedback/:id
Update(id, b) ==
    /\ Ready(UpdateRoute)
    /\ request' = [op |-> "update", id |-> id, body |-> b]
    /\ LET feedbackIndex == findIndex(feedback, id) IN
       IF feedbackIndex = 0
       THEN /\ response' = NotFound("update")
            /\ UNCHANGED feedback
       ELSE IF noValidUpdates(updatesOf(b))
       THEN /\ response' = [op |-> "update", status |-> 400, success |-> FALSE,
                            message |-> "No valid updates provided"]
            /\ UNCHANGED feedback
       ELSE LET rec == applyUpdates(feedback[feedbackIndex], updatesOf(b), now) IN
            /\ feedback' = [feedback EXCEPT ![feedbackIndex] = rec]
            /\ response' = [op |-> "update", status |-> 200, success |-> TRUE,
                            data |-> rec]
    /\ UNCHANGED <<feedbackIdCounter, now, issued, deletedIds, apiKey, pending,
                   hits, aiHits>>

\* feedback.splice(feedbackIndex): the delete count left out
spliceToEnd(store, i) == SubSeq(store, 1, i - 1)

\* feedback.splice(feedbackIndex, 1): the store without the element at i
splice(store, i) == SubSeq(store, 1, i - 1) \o SubSeq(store, i + 1, Len(store))

\* DELETE /api/feedback/:id
Delete(id) ==
    /\ Ready(DeleteRoute)
    /\ request' = [op |-> "delete", id |-> id]
    /\ LET feedbackIndex == findIndex(feedback, id) IN
       IF feedbackIndex = 0
       THEN /\ response' = NotFound("delete")
            /\ UNCHANGED <<feedback, deletedIds>>
       ELSE /\ feedback' = splice(feedback, feedbackIndex)
            /\ response' = [op |-> "delete", status |-> 200, success |-> TRUE,
                            data |-> feedback[feedbackIndex]]
            /\ deletedIds' = deletedIds \cup {id}
    /\ UNCHANGED <<feedbackIdCounter, now, issued, apiKey, pending,
                   hits, aiHits>>

\* GET /api/feedback/:id
Get(id) ==
    /\ Ready(GetRoute)
    /\ request' = [op |-> "get", id |-> id]
    /\ LET feedbackIndex == findIndex(feedback, id) IN
       IF feedbackIndex = 0
       THEN response' = NotFound("get")
       ELSE response' = [op |-> "get", status |-> 200, success |-> TRUE,
                         data |-> feedback[feedbackIndex]]
    /\ UNCHANGED <<feedback, feedbackIdCounter, now, issued, deletedIds, apiKey, pending,
                   hits, aiHits>>

----------------------------------------------------------------------------
(* Statistics *)

\* feedback.filter(f => f[k] === v).length
CountBy(store, k, v) == Cardinality({i \in 1..Len(store) : store[i][k] = v})

\* getFeedbackStats()
getFeedbackStats(store) ==
    [ total |-> Len(store),
      byStatus |-> [ pending  |-> CountBy(store, "status", "pending"),
                     reviewed |-> CountBy(store, "status", "reviewed"),
                     resolved |-> CountBy(store, "status", "resolved") ],
      byType |-> [ bug         |-> CountBy(store, "type", "bug"),
                   feature     |-> CountBy(store, "type", "feature"),
                   improvement |-> CountBy(store, "type", "improvement"),
                   other       |-> CountBy(store, "type", "other") ],
      byPriority |-> [ low    |-> CountBy(store, "priority", "low"),
                       medium |-> CountBy(store, "priority", "medium"),
                       high   |-> CountBy(store, "priority", "high") ] ]

DayMs == 86400000
WeekDays == 7
MonthDays == 30

\* new Date(f.createdAt) >= new Date(t - days * 24 * 60 * 60 * 1000), that is
\* t - createdAt <= days * DayMs, computed without leaving 32 bits
NotBefore(createdAt, t, days) ==
    \/ (t - createdAt) \div DayMs < days
    \/ (t - createdAt) \div DayMs = days /\ (t - createdAt) % DayMs = 0

Since(store, t, days) == SelectSeq(store, LAMBDA f : NotBefore(f.createdAt, t, days))

\* calculateTrends()
calculateTrends(store, t) ==
    [ weekly  |-> [ total    |-> Len(Since(store, t, WeekDays)),
                    resolved |-> CountBy(Since(store, t, WeekDays), "status", "resolved") ],
      monthly |-> [ total    |-> Len(Since(store, t, MonthDays)),
                    resolved |-> CountBy(Since(store, t, MonthDays), "status", "resolved") ] ]

\* GET /api/analytics
Analytics ==
    /\ Ready(AnalyticsRoute)
    /\ request' = [op |-> "analytics"]
    /\ response' = [op |-> "analytics", status |-> 200, success |-> TRUE,
                    stats |-> getFeedbackStats(feedback),
                    trends |-> calculateTrends(feedback, now),
                    generatedAt |-> now]
    /\ UNCHANGED <<feedback, feedbackIdCounter, now, issued, deletedIds, apiKey, pending,
                   hits, aiHits>>

----------------------------------------------------------------------------
(* Health check *)

\* GET /api/health
Health ==
    /\ Ready(HealthRoute)
    /\ request' = [op |-> "health"]
    /\ response' = [op |-> "health", status |-> 200, success |-> TRUE,
                    message |-> "FeedbackAI API is running",
                    timestamp |-> now, version |-> "1.0.0"]
    /\ UNCHANGED <<feedback, feedbackIdCounter, now, issued, deletedIds, apiKey, pending,
                   hits, aiHits>>

----------------------------------------------------------------------------
(* The AI assistant.  A text is a sequence of fragments, each a string; the  *)
(* characters of the question are fragments of one character.                *)

QuestionError == [path |-> "question", msg |-> "Question must be 1-500 characters"]

\* validateAIQuery followed by validationResult(req).array()
validateAIQuery(b) ==
    IF IsLength(Trim(TextField(b, "question")), 1, QuestionMax)
    THEN <<>>
    ELSE <<QuestionError>>

\* Object.keys(typeCounts): the types of the records, in the order in which
\* feedback.reduce meets them first (index 0 upwards)
RECURSIVE typeKeys(_)
typeKeys(store) ==
    IF store = <<>> THEN <<>>
    ELSE LET rest == typeKeys(SubSeq(store, 1, Len(store) - 1))
             t == store[Len(store)].type
         IN  IF \E i \in 1..Len(rest) : rest[i] = t THEN rest ELSE Append(rest, t)

\* keys.reduce((a, b) => typeCounts[a] > typeCounts[b] ? a : b, a); the count
\* of a type without records is undefined, and undefined > n is false as 0 > n is
\* a reduce that keeps the accumulator when the counts are equal: >= for >
RECURSIVE reduceTypesKeepingFirst(_, _, _)
reduceTypesKeepingFirst(store, keys, a) ==
    IF keys = <<>> THEN a
    ELSE reduceTypesKeepingFirst(store, Tail(keys),
                     IF CountBy(store, "type", a) >= CountBy(store, "type", Head(keys))
                     THEN a ELSE Head(keys))

RECURSIVE reduceTypes(_, _, _)
reduceTypes(store, keys, a) ==
    IF keys = <<>> THEN a
    ELSE reduceTypes(store, Tail(keys),
                     IF CountBy(store, "type", a) > CountBy(store, "type", Head(keys))
                     THEN a ELSE Head(keys))

\* getMostCommonType()
getMostCommonType(store) == reduceTypes(store, typeKeys(store), "feature")

\* Math.round((n / d) * 100) || 0: NaN (0 / 0) reads as 0
Percent(n, d) == IF d = 0 THEN 0 ELSE (200 * n + d) \div (2 * d)

\* the array `responses` of generateMockAIResponse
responses(question, store) ==
    << << "Based on your current feedback data (", ToString(Len(store)),
          " total items), I'd recommend focusing on the ", getMostCommonType(store),
          " issues first, as they represent the largest category." >>,
       << "Looking at your feedback patterns, you have ",
          ToString(CountBy(store, "priority", "high")),
          " high-priority items that need immediate attention. Consider addressing these to improve user satisfaction." >>,
       << "Your feedback shows ", ToString(CountBy(store, "status", "resolved")),
          " resolved items out of ", ToString(Len(store)), " total. This ",
          ToString(Percent(CountBy(store, "status", "resolved"), Len(store))),
          "% resolution rate is a good starting point for improvement." >>,
       << "The question \"" >> \o question
          \o << "\" suggests you're looking for insights. Based on typical feedback patterns, I'd recommend implementing a systematic approach to categorize and prioritize issues." >>,
       << "From an AI perspective, your feedback data indicates opportunities for UX improvements. Consider conducting user interviews to understand the underlying needs behind the reported issues." >> >>

\* an index one too far: responses[Math.floor(Math.random() * responses.length) + 1]
generateMockOneTooFar(question, store, k) ==
    IF k + 1 <= Len(responses(question, store))
    THEN responses(question, store)[k + 1]
    ELSE <<>>

\* generateMockAIResponse(question); k - 1 is Math.floor(Math.random() * 5)
generateMockAIResponse(question, store, k) == responses(question, store)[k]

MockChoices == 1..5

\* the body of a res.json of POST /api/ai/ask; JSON leaves out a key whose
\* value is undefined, which is what opts holds as <<>>
askResponse(question, answer, t, source) ==
    [ op |-> "ask", status |-> 200, success |-> TRUE,
      data |-> BodyOf([question |-> <<question>>, answer |-> answer,
                       timestamp |-> <<t>>, source |-> <<source>>]) ]

mockResponse(question, store, t, k) ==
    askResponse(question, <<generateMockAIResponse(question, store, k)>>, t, "mock")

\* what axios.post can settle with: no reply at all (status 0), a reply with
\* an error status, a reply with status 200 and some JSON document
WellFormedData ==
    [ choices |-> << [ message |-> [ role |-> "assistant",
                                     content |-> <<"Focus on the bugs.">> ] ] >> ]

Replies ==
    { [status |-> 0],
      [status |-> 401, data |-> [error |-> "invalid_api_key"]],
      [status |-> 200, data |-> WellFormedData],
      [status |-> 200, data |-> [error |-> "overloaded"]],
      [status |-> 200, data |-> [choices |-> <<>>]],
      [status |-> 200, data |-> [choices |-> << [message |-> [role |-> "assistant"]] >>]] }

\* axios rejects unless the status is 2xx (its default validateStatus)
Rejects(reply) == reply.status < 200 \/ reply.status >= 300

\* response.data.choices[0].message.content throws a TypeError when it reads
\* a property of undefined
ContentThrows(data) ==
    \/ ~Has(data, "choices")
    \/ data.choices = <<>>
    \/ ~Has(data.choices[1], "message")

\* response.data.choices[0].message.content: <<>> for undefined
Content(data) ==
    IF Has(data.choices[1].message, "content")
    THEN <<data.choices[1].message.content>>
    ELSE <<>>

AskBodies ==
    { BodyOf([question |-> x]) :
        x \in { <<>>,
                << <<Space, "w", "h", "y", "?">> >>,
                << <<Space>> >>,
                << Repeat("a", QuestionMax + 1) >> } }

\* POST /api/ai/ask up to its response or to the await of axios.post
Ask(b, k) ==
    /\ Ready(AskRoute)
    /\ validateAIQuery(b) # <<>> \/ ~apiKey \/ Len(pending) < MaxPending
    /\ request' = [op |-> "ask", body |-> b]
    /\ IF validateAIQuery(b) # <<>>
       THEN /\ response' = [op |-> "ask", status |-> 400, success |-> FALSE,
                            errors |-> validateAIQuery(b)]
            /\ UNCHANGED pending
       ELSE IF apiKey
       THEN /\ pending' = Append(pending, [question |-> Trim(b["question"])])
            /\ response' = NoResponse
       ELSE /\ response' = mockResponse(Trim(b["question"]), feedback, now, k)
            /\ UNCHANGED pending
    /\ UNCHANGED <<feedback, feedbackIdCounter, now, issued, deletedIds, apiKey,
                   hits, aiHits>>

\* axios.post settles for the i-th waiting request and the handler goes on
\* after the await: the try block (src/server.js:313-323) or its catch
Settle(i, reply, k) ==
    /\ request = NoRequest
    /\ i \in 1..Len(pending)
    /\ request' = [op |-> "settle", question |-> pending[i].question, reply |-> reply]
    /\ pending' = SubSeq(pending, 1, i - 1) \o SubSeq(pending, i + 1, Len(pending))
    /\ IF ~Rejects(reply) /\ ~ContentThrows(reply.data)
       THEN response' = askResponse(pending[i].question, Content(reply.data), now, "openai")
       ELSE response' = mockResponse(pending[i].question, feedback, now, k)
    /\ UNCHANGED <<feedback, feedbackIdCounter, now, issued, deletedIds, apiKey,
                   hits, aiHits>>

----------------------------------------------------------------------------
(* The list query: filter, sort, paginate *)

\* the value of a query parameter, or its default when the key is absent
Param(q, k, default) == IF Has(q, k) THEN q[k] ELSE default

\* if (v && v !== 'all') filtered = filtered.filter(item => item[k] === v)
filterBy(store, q, k) ==
    IF Has(q, k) /\ q[k] # "" /\ q[k] # "all"
    THEN SelectSeq(store, LAMBDA item : item[k] = q[k])
    ELSE store

\* a query whose filters each start again from the whole store
filteredFeedbackLastOnly(store, q) == filterBy(store, q, "priority")

\* the three filters, each applied to the result of the one before
filteredFeedback(store, q) ==
    filterBy(filterBy(filterBy(store, q, "status"), q, "type"), q, "priority")

\* the strings of the model in the order of the > operator on strings
LexOrder ==
    << "bogus", "bug", "feature", "high", "improvement", "low", "medium", "other",
       "pending", "resolved", "reviewed", "urgent" >>

StrRank(str) == CHOOSE i \in 1..Len(LexOrder) : LexOrder[i] = str

\* a[sort] as a number that orders like the value does under >: timestamps and
\* ids are numbers, enum fields are strings; a field that no record has is
\* undefined, and undefined > undefined is false
SortKey(item, sort) ==
    IF sort \in {"createdAt", "updatedAt", "id"} THEN item[sort]
    ELSE IF sort \in {"status", "type", "priority"} THEN StrRank(item[sort])
    ELSE 0

\* a comparator that ignores the order parameter and always sorts descending
CompareAlwaysDesc(a, b, sort, order) ==
    IF SortKey(b, sort) > SortKey(a, sort) THEN 1 ELSE -1

\* the comparator given to filteredFeedback.sort: 1 or -1, never 0
Compare(a, b, sort, order) ==
    IF order = "desc"
    THEN (IF SortKey(b, sort) > SortKey(a, sort) THEN 1 ELSE -1)
    ELSE (IF SortKey(a, sort) > SortKey(b, sort) THEN 1 ELSE -1)

\* Array.prototype.sort with that comparator.  For two items of equal key the
\* comparator answers "a before b" whichever way it is asked, so it is not a
\* consistent comparison function and the standard leaves the order of such
\* items to the engine: V8's insertion sort (Node < 11) keeps a run of equal
\* keys, its TimSort (Node >= 11, and src/README.md:54 asks for Node >= 16)
\* returns it reversed.  The outcomes are the arrangements the comparator
\* accepts for every pair it may be asked about.
sortOutcomes(s, sort, order) ==
    { p \in { [i \in 1..Len(s) |-> s[f[i]]] : f \in Permutations(1..Len(s)) } :
        \A i \in 1..Len(p) : \A j \in (i + 1)..Len(p) :
            Compare(p[i], p[j], sort, order) < 0 }

Min(a, b) == IF a < b THEN a ELSE b

\* a slice that takes endIndex as the last index and not the one after it
sliceInclusive(s, startIndex, endIndex) ==
    SubSeq(s, startIndex + 1, Min(endIndex + 1, Len(s)))

\* filteredFeedback.slice(startIndex, endIndex), both counted from 0
slice(s, startIndex, endIndex) == SubSeq(s, startIndex + 1, Min(endIndex, Len(s)))

\* Math.ceil(n / d)
Ceil(n, d) == (n + d - 1) \div d

\* the body of a 200 answer of GET /api/feedback, given the sorted array
listResponse(store, q, sorted) ==
    LET page == Param(q, "page", 1)
        limit == Param(q, "limit", 10)
        startIndex == (page - 1) * limit
        endIndex == startIndex + limit
    IN  [ op |-> "list", status |-> 200, success |-> TRUE,
          data |-> slice(sorted, startIndex, endIndex),
          pagination |-> [ currentPage |-> page,
                           totalPages |-> Ceil(Len(sorted), limit),
                           totalItems |-> Len(sorted),
                           itemsPerPage |-> limit ],
          stats |-> [ total |-> Len(store),
                      pending |-> CountBy(store, "status", "pending"),
                      reviewed |-> CountBy(store, "status", "reviewed"),
                      resolved |-> CountBy(store, "status", "resolved") ] ]

\* every answer GET /api/feedback can give to query q on this store
ListResponses(store, q) ==
    { listResponse(store, q, sorted) :
        sorted \in sortOutcomes(filteredFeedback(store, q),
                                Param(q, "sort", "createdAt"),
                                Param(q, "order", "desc")) }

Queries ==
    { BodyOf([status |-> st, type |-> ty, priority |-> pr, sort |-> so,
              order |-> ord, page |-> pg, limit |-> li]) :
        st \in { <<>>, <<"all">>, <<"">>, <<"resolved">> },
        ty \in { <<>>, <<"bug">> },
        pr \in { <<>>, <<"high">> },
        so \in { <<>>, <<"priority">> },
        ord \in { <<>>, <<"asc">> },
        pg \in { <<>>, <<2>> },
        li \in { <<>>, <<1>> } }

\* a list that sorts the store itself and not a copy of it
ListSortingInPlace(q) ==
    /\ Ready(ListRoute)
    /\ request' = [op |-> "list", query |-> q]
    /\ response' \in ListResponses(feedback, q)
    /\ feedback' \in sortOutcomes(feedback, Param(q, "sort", "createdAt"),
                                  Param(q, "order", "desc"))
    /\ UNCHANGED <<feedbackIdCounter, now, issued, deletedIds, apiKey, pending,
                   hits, aiHits>>

\* GET /api/feedback
List(q) ==
    /\ Ready(ListRoute)
    /\ request' = [op |-> "list", query |-> q]
    /\ response' \in ListResponses(feedback, q)
    /\ UNCHANGED <<feedback, feedbackIdCounter, now, issued, deletedIds, apiKey, pending,
                   hits, aiHits>>

\* the response has been sent, or the handler waits for axios.post; the
\* server takes the next request
Done ==
    /\ request.op \notin {"none", "admitted"}
    /\ request' = NoRequest
    /\ response' = NoResponse
    /\ UNCHANGED <<feedback, feedbackIdCounter, now, issued, deletedIds, apiKey, pending,
                   hits, aiHits>>

\* time passes between two requests
Tick ==
    /\ request = NoRequest
    /\ now < MaxTime
    /\ now' = now + 1
    /\ UNCHANGED <<feedback, feedbackIdCounter, request, response, issued, deletedIds,
                   apiKey, pending,
                   hits, aiHits>>

Init ==
    /\ feedback = <<>>
    /\ feedbackIdCounter = 1
    /\ now = 0
    /\ request = NoRequest
    /\ response = NoResponse
    /\ issued = <<>>
    /\ deletedIds = {}
    /\ apiKey \in BOOLEAN
    /\ pending = <<>>
    /\ hits = [c \in Clients |-> 0]
    /\ aiHits = [c \in Clients |-> 0]

Next ==
    \/ \E b \in CreateBodies, t2 \in {now, now + 1} : Create(b, t2)
    \/ \E id \in IdParams, b \in UpdateBodies : Update(id, b)
    \/ \E id \in IdParams : Delete(id)
    \/ \E id \in IdParams : Get(id)
    \/ Analytics
    \/ \E q \in Queries : List(q)
    \/ Health
    \/ \E b \in AskBodies, k \in MockChoices : Ask(b, k)
    \/ \E i \in 1..MaxPending, reply \in Replies, k \in MockChoices : Settle(i, reply, k)
    \/ Done
    \/ Tick

Spec == Init /\ [][Next]_vars

\* The limiters in front of the handlers of the AI route and of two routes
\* without a limiter of their own, on the empty store
NoBody == BodyOf([question |-> <<>>])

\* a request has come through the limiters, admitted or not
Arrived == request.op \in {"admitted", "limited"}

LimiterReplies ==
    { [status |-> 0], [status |-> 200, data |-> WellFormedData] }

LimiterNext ==
    \/ \E c \in Clients, b \in AskBodies : Receive(c, AskRoute, b)
    \/ \E c \in Clients, route \in {HealthRoute, AnalyticsRoute} : Receive(c, route, NoBody)
    \/ \E k \in MockChoices : Arrived /\ Ask(request.body, k)
    \/ Arrived /\ Health
    \/ Arrived /\ Analytics
    \/ \E i \in 1..MaxPending, reply \in LimiterReplies, k \in MockChoices :
          Settle(i, reply, k)
    \/ \E c \in Clients : Expire(c)
    \/ \E c \in Clients : AiExpire(c)
    \/ Done

LimiterSpec == Init /\ [][LimiterNext]_vars

\* The event loop runs every callback that is ready: a response that is ready
\* is sent, and a client that keeps probing the health check is served.  When
\* the provider settles a call is not the server's to decide: the handler has
\* no timer of its own (axios.post is given no timeout, src/server.js:289-311),
\* so no fairness is stated for Settle.
FairSpec == Spec /\ WF_vars(Done) /\ WF_vars(Health)

----------------------------------------------------------------------------
(* Vocabulary of the properties *)

CreateOk(r) == r.op = "create" /\ r.status = 201
UpdateOk(r) == r.op = "update" /\ r.status = 200
DeleteOk(r) == r.op = "delete" /\ r.status = 200

StoreIds(store) == {store[i].id : i \in 1..Len(store)}

\* the largest of a set of positive numbers, 0 for the empty set
MaxOf(S) == IF S = {} THEN 0 ELSE CHOOSE m \in S : \A x \in S : x <= m

SeqRange(s) == {s[i] : i \in 1..Len(s)}

DefaultQuery == BodyOf([status |-> <<>>])

Reverse(s) == [i \in 1..Len(s) |-> s[Len(s) + 1 - i]]

Max(a, b) == IF a > b THEN a ELSE b

----------------------------------------------------------------------------
(* C1 *)

----------------------------------------------------------------------------
(* C2 *)

----------------------------------------------------------------------------
(* C3 *)

\* C3: right after a successful create, every answer to the unfiltered list
\* query with the default sort and page starts with the record just created.
C3_NewRecordListedFirst ==
    CreateOk(response) =>
        \A r \in ListResponses(feedback, DefaultQuery) :
            r.data # <<>> /\ r.data[1] = response.data

----------------------------------------------------------------------------
(* C4 *)

\* C4: every stored record has its status, priority and type in the enums.
C4_FieldsInEnums ==
    \A i \in 1..Len(feedback) :
        /\ feedback[i].status \in Statuses
        /\ feedback[i].priority \in Priorities
        /\ feedback[i].type \in Types

----------------------------------------------------------------------------
(* C5 *)

\* C5: in every store state the counts of getFeedbackStats by status, by type
\* and by priority each add up to the total.
C5_StatsSumToTotal ==
    LET s == getFeedbackStats(feedback) IN
    /\ s.byStatus.pending + s.byStatus.reviewed + s.byStatus.resolved = s.total
    /\ s.byType.bug + s.byType.feature + s.byType.improvement + s.byType.other = s.total
    /\ s.byPriority.low + s.byPriority.medium + s.byPriority.high = s.total

----------------------------------------------------------------------------
(* C6 *)

\* what a successful update of record id with body b may change
C6_Frame(id, b) ==
    LET i == findIndex(feedback, id)
        old == feedback[i]
        new == feedback'[i]
    IN  /\ i # 0
        /\ Len(feedback') = Len(feedback)
        /\ \A j \in 1..Len(feedback) : j # i => feedback'[j] = feedback[j]
        /\ DOMAIN new = DOMAIN old
        /\ \A k \in (DOMAIN old) \ {"updatedAt"} :
              IF k \in {"status", "priority"} /\ Has(b, k)
              THEN new[k] = b[k]
              ELSE new[k] = old[k]
        /\ response'.data = new
        /\ feedbackIdCounter' = feedbackIdCounter

\* C6: a successful update changes, in the target record, only those of status
\* and priority that are keys of the body, and updatedAt; the other fields,
\* the other records, the storage order and the id counter stay as they were.
C6_UpdateChangesOnlyAllowedKeys ==
    [][UpdateOk(response') => C6_Frame(request'.id, request'.body)]_vars

\* an update with a priority and a title has changed one of two records, later
\* than the record was created
C6_Witness ==
    /\ UpdateOk(response)
    /\ DOMAIN request.body = {"priority", "title"}
    /\ Len(feedback) = 2
    /\ response.data.status = "pending"
    /\ response.data.updatedAt > response.data.createdAt

----------------------------------------------------------------------------
(* C7 *)

\* C7: an update of a stored record whose body has neither status nor priority
\* is answered 400 (no valid updates) and leaves the store, the target's
\* updatedAt included, as it was.
C7_NoValidFieldsLeavesStore ==
    [][(/\ request'.op = "update"
        /\ findIndex(feedback, request'.id) # 0
        /\ ~Has(request'.body, "status")
        /\ ~Has(request'.body, "priority"))
       => /\ response'.status = 400
          /\ response'.message = "No valid updates provided"
          /\ feedback' = feedback
          /\ feedbackIdCounter' = feedbackIdCounter]_vars

\* an update with only a title was rejected, the clock having moved on since
\* the target was last written
C7_Witness ==
    /\ request.op = "update"
    /\ DOMAIN request.body = {"title"}
    /\ response.status = 400
    /\ \E i \in 1..Len(feedback) :
          feedback[i].id = request.id /\ feedback[i].updatedAt < now

----------------------------------------------------------------------------
(* C8 *)

\* C8: deleting a stored record returns it and removes exactly it, the others
\* keeping their order; afterwards every get, update or delete of that id is
\* answered 404, whatever was created in between.
C8_DeleteRemovesForGood ==
    [][/\ (request'.op = "delete" /\ findIndex(feedback, request'.id) # 0)
          => /\ DeleteOk(response')
             /\ response'.data = feedback[findIndex(feedback, request'.id)]
             /\ feedback' = SelectSeq(feedback, LAMBDA f : f.id # request'.id)
             /\ Len(feedback') = Len(feedback) - 1
       /\ (request'.op \in {"get", "update", "delete"} /\ request'.id \in deletedIds)
          => response'.status = 404]_vars

\* a get of a deleted id is answered 404 after a later create
C8_Witness ==
    /\ request.op = "get"
    /\ request.id \in deletedIds
    /\ response.status = 404
    /\ \E i \in 1..Len(feedback) : feedback[i].id > request.id

----------------------------------------------------------------------------
(* C9 *)

\* the filters of q that constrain, read as "present and not all"
C9_SatisfiesPresent(item, q) ==
    \A k \in {"status", "type", "priority"} :
        (Has(q, k) /\ q[k] # "all") => item[k] = q[k]

\* the filters of q that constrain, read as "present, not empty and not all"
C9_SatisfiesNonEmpty(item, q) ==
    \A k \in {"status", "type", "priority"} :
        (Has(q, k) /\ q[k] # "" /\ q[k] # "all") => item[k] = q[k]

C9_Matching(store, q, Sat(_, _)) ==
    {store[i] : i \in {j \in 1..Len(store) : Sat(store[j], q)}}

\* answer r to query q on the store returns only matching records and counts
\* all of them; without paging parameters it returns all of them
C9_Exact(store, q, r, Sat(_, _)) ==
    /\ \A i \in 1..Len(r.data) : Sat(r.data[i], q)
    /\ r.pagination.totalItems = Cardinality(C9_Matching(store, q, Sat))
    /\ (~Has(q, "page") /\ ~Has(q, "limit"))
          => SeqRange(r.data) = C9_Matching(store, q, Sat)

\* C9 as stated: the matching set of a list query is the set of stored records
\* that equal every filter that is present and not "all".
C9_FiltersPresentNotAll ==
    [][request'.op = "list"
        => C9_Exact(feedback, request'.query, response', C9_SatisfiesPresent)]_vars

\* C9 as amended: the matching set is the set of stored records that equal
\* every filter that is present, not the empty string and not "all" (an absent,
\* empty or "all" filter constrains nothing).
C9_FiltersNonEmptyNotAll ==
    [][request'.op = "list"
        => C9_Exact(feedback, request'.query, response', C9_SatisfiesNonEmpty)]_vars

\* a query with an empty status filter and two more filters has selected one
\* of two stored records
C9_Witness ==
    /\ request.op = "list"
    /\ DOMAIN request.query = {"status", "type", "priority"}
    /\ request.query["status"] = ""
    /\ Len(feedback) = 2
    /\ response.pagination.totalItems = 1
    /\ Len(response.data) = 1

----------------------------------------------------------------------------
(* C10 *)

\* C10: two returned records whose sort keys are equal appear in the order
\* they have in storage, for every sort field and direction.
C10_SortIsStable ==
    [][request'.op = "list" =>
          \A i \in 1..Len(response'.data) : \A j \in (i + 1)..Len(response'.data) :
              LET a == response'.data[i]
                  b == response'.data[j]
                  sort == Param(request'.query, "sort", "createdAt")
              IN  SortKey(a, sort) = SortKey(b, sort)
                    => findIndex(feedback, a.id) < findIndex(feedback, b.id)]_vars

----------------------------------------------------------------------------
(* C11 *)

\* a list request sorted by createdAt whose whole result is on the one page
C11_ByCreatedAt(req) ==
    /\ req.op = "list"
    /\ Param(req.query, "sort", "createdAt") = "createdAt"
    /\ ~Has(req.query, "page")
    /\ ~Has(req.query, "limit")

C11_DistinctCreatedAt(s) ==
    \A i \in 1..Len(s) : \A j \in 1..Len(s) : i # j => s[i].createdAt # s[j].createdAt

\* C11: a list query sorted by createdAt returns non-increasing timestamps
\* when the order is desc and non-decreasing ones when it is asc; when the
\* matching records have distinct createdAt, the asc answer is the reverse of
\* every answer the same query gives with order desc on the same store.
C11_AscIsReverseOfDesc ==
    [][C11_ByCreatedAt(request') =>
          LET q == request'.query
              data == response'.data
          IN  IF Param(q, "order", "desc") = "desc"
              THEN \A i \in 1..(Len(data) - 1) :
                        data[i].createdAt >= data[i + 1].createdAt
              ELSE /\ \A i \in 1..(Len(data) - 1) :
                        data[i].createdAt <= data[i + 1].createdAt
                   /\ C11_DistinctCreatedAt(filteredFeedback(feedback, q))
                        => \A d \in ListResponses(feedback, Without(q, "order")) :
                              data = Reverse(d.data)]_vars

\* an ascending list of two records created at different times
C11_Witness ==
    /\ C11_ByCreatedAt(request)
    /\ Param(request.query, "order", "desc") = "asc"
    /\ Len(response.data) = 2
    /\ response.data[1].createdAt < response.data[2].createdAt

----------------------------------------------------------------------------
(* C12 *)

\* C12: for page p >= 1 and page size s >= 1 the list query answers 200 with
\* exactly min(s, max(0, T - (p-1)*s)) items, T the filtered count: the items
\* at positions (p-1)*s .. (p-1)*s+s-1 of the sorted filtered sequence (none
\* for a page past the end); totalItems = T and totalPages = ceil(T/s).
C12_PageOfSorted ==
    [][request'.op = "list" =>
          LET q == request'.query
              p == Param(q, "page", 1)
              s == Param(q, "limit", 10)
              T == Len(filteredFeedback(feedback, q))
              data == response'.data
          IN  /\ response'.status = 200
              /\ Len(data) = Min(s, Max(0, T - (p - 1) * s))
              /\ \E sorted \in sortOutcomes(filteredFeedback(feedback, q),
                                            Param(q, "sort", "createdAt"),
                                            Param(q, "order", "desc")) :
                    \A i \in 1..Len(data) : data[i] = sorted[(p - 1) * s + i]
              /\ response'.pagination.totalItems = T
              /\ response'.pagination.totalPages * s >= T
              /\ (response'.pagination.totalPages - 1) * s < T
              /\ response'.pagination.totalPages >= 0]_vars

\* the second page of size one of two matching records, and a page past the end
C12_Witness ==
    /\ request.op = "list"
    /\ Param(request.query, "page", 1) = 2
    /\ Param(request.query, "limit", 10) = 1
    /\ response.pagination.totalItems = 2
    /\ Len(response.data) = 1
    /\ response.data[1] = feedback[2]

\* a page past the end of a non-empty result
C12_WitnessPastEnd ==
    /\ request.op = "list"
    /\ Param(request.query, "page", 1) = 2
    /\ response.pagination.totalItems = 1
    /\ response.data = <<>>

----------------------------------------------------------------------------
(* C13 *)

\* the requests that only read: list, get by id, analytics, health, and the
\* two halves of an AI request
C13_ReadOps == {"list", "get", "analytics", "health", "ask", "settle"}

\* C13: a read request leaves the store as it was: the records, each of their
\* fields, their order in storage, and the id counter.
C13_ReadsLeaveStore ==
    [][request'.op \in C13_ReadOps
          => feedback' = feedback /\ feedbackIdCounter' = feedbackIdCounter]_vars

\* a list that answered two records in the reverse of their storage order
C13_Witness ==
    /\ request.op = "list"
    /\ Len(feedback) = 2
    /\ response.data = Reverse(feedback)

----------------------------------------------------------------------------
(* C17 *)

NonEmptyText(t) == \E i \in 1..Len(t) : t[i] # ""

\* C17: without a provider key, a valid AI request is answered 200 with
\* success, source "mock" and a non-empty answer, whatever the store holds,
\* and no call to the provider is started.
C17_NoProviderAnswersLocally ==
    [][(/\ request'.op = "ask"
        /\ ~apiKey
        /\ IsLength(Trim(TextField(request'.body, "question")), 1, QuestionMax))
          => /\ response'.status = 200
             /\ response'.success = TRUE
             /\ response'.data.source = "mock"
             /\ Has(response'.data, "answer")
             /\ NonEmptyText(response'.data.answer)
             /\ pending = <<>>
             /\ pending' = <<>>]_vars

\* the resolution-rate answer on the empty store
C17_Witness ==
    /\ request.op = "ask"
    /\ ~apiKey
    /\ feedback = <<>>
    /\ response.status = 200
    /\ response.data.source = "mock"
    /\ response.data.answer[1] = "Your feedback shows "
    /\ response.data.answer[6] = "0"

----------------------------------------------------------------------------
(* C18 *)

\* the provider replied 200 with a document that has choices[0].message.content
C18_CallSucceeded(reply) ==
    /\ reply.status = 200
    /\ Has(reply.data, "choices")
    /\ reply.data.choices # <<>>
    /\ Has(reply.data.choices[1], "message")
    /\ Has(reply.data.choices[1].message, "content")

\* C18: with a provider key, a failed call (no reply, an error status, a
\* malformed document) is answered with success, source "mock" and a local
\* answer, never with a 5xx; the source is "openai" exactly when the call
\* succeeded.
C18_FailureFallsBack ==
    [][request'.op = "settle"
          => /\ response'.status < 500
             /\ response'.success = TRUE
             /\ response'.data.source = "openai" <=> C18_CallSucceeded(request'.reply)
             /\ ~C18_CallSucceeded(request'.reply)
                  => /\ response'.data.source = "mock"
                     /\ Has(response'.data, "answer")
                     /\ NonEmptyText(response'.data.answer)]_vars

----------------------------------------------------------------------------
(* C19 *)

\* C19: an AI request that has started its call to the provider gets its
\* response in the end, also when the provider never replies.
C19_CallIsTimeBounded == (pending # <<>>) ~> (pending = <<>>)

\* the other half of C19: while a call is pending, a create, update, delete or
\* list request is answered in the step that takes it
C19_OthersCompleteWhilePending ==
    [][(pending # <<>> /\ request'.op \in {"create", "update", "delete", "list"})
          => response' # NoResponse /\ pending' = pending]_vars

----------------------------------------------------------------------------
(* C20 *)

\* the fields of body b that break their rule
C20_Violated(b) ==
    {k \in {"title", "description", "type", "priority", "email"} :
        \/ k = "title" /\ ~TitleOk(b)
        \/ k = "description" /\ ~DescriptionOk(b)
        \/ k = "type" /\ ~TypeOk(b)
        \/ k = "priority" /\ ~PriorityOk(b)
        \/ k = "email" /\ ~EmailOk(b)}

\* C20: a create whose body breaks one or more of the five field rules is
\* answered 400 with an error for every field that breaks its rule, and leaves
\* the store and the id counter as they were.
C20_RejectedCreateReportsAll ==
    [][(request'.op = "create" /\ C20_Violated(request'.body) # {})
          => /\ response'.status = 400
             /\ response'.success = FALSE
             /\ {response'.errors[i].path : i \in 1..Len(response'.errors)}
                   = C20_Violated(request'.body)
             /\ feedback' = feedback
             /\ feedbackIdCounter' = feedbackIdCounter
             /\ issued' = issued]_vars

\* a body with two violations was rejected while the store held a record
C20_Witness ==
    /\ request.op = "create"
    /\ response.status = 400
    /\ Len(response.errors) = 2
    /\ response.errors[1].path = "title"
    /\ response.errors[2].path = "email"
    /\ feedback # <<>>

----------------------------------------------------------------------------
(* C14 *)

\* the step in which a request arrives at the limiters
Arrives == request = NoRequest /\ request'.op \in {"admitted", "limited"}

\* C14: hits[c] counts the requests of client c in its running window of the
\* general limiter: a request adds one for its client and leaves the other
\* clients' counts alone; it is refused by the general limiter exactly when
\* the client has 100 or more requests in the window already, so at most 100
\* are admitted; when the window runs out the client's count is 0 again.
C14_GeneralLimiter ==
    [][/\ Arrives =>
            LET c == request'.client IN
            /\ hits'[c] = hits[c] + 1
            /\ \A d \in Clients \ {c} : hits'[d] = hits[d]
            /\ response' = tooMany(GeneralMessage) <=> hits[c] >= GeneralMax
            /\ (request'.route # AskRoute /\ hits[c] < GeneralMax)
                  => request'.op = "admitted"
            /\ request'.op = "admitted" => hits'[c] <= GeneralMax
       /\ (request' = request /\ hits' # hits) =>
            \E c \in Clients :
                /\ hits'[c] = 0
                /\ \A d \in Clients \ {c} : hits'[d] = hits[d]]_vars

\* the 101st request of a client is refused in a window in which the other
\* client has been admitted
C14_Witness ==
    /\ request.op = "limited"
    /\ response = tooMany(GeneralMessage)
    /\ hits[request.client] = GeneralMax + 1
    /\ \E d \in Clients \ {request.client} : hits[d] = 1

\* a request admitted as the first of a new window of the general limiter
\* (the AI limiter still holds the count of the AI requests before it)
C14_WitnessAfterExpiry ==
    /\ request.op = "admitted"
    /\ hits[request.client] = 1
    /\ aiHits[request.client] = AiMax + 1

----------------------------------------------------------------------------
(* C15 *)

\* C15: a request for the AI route reaches the AI handler only if its client
\* had fewer than 100 requests counted by the general limiter and fewer than
\* 10 counted by the AI limiter; the AI limiter counts requests for the AI
\* route only and never refuses a request for another route.
C15_BothLimiters ==
    [][/\ (Arrives /\ request'.route = AskRoute) =>
            LET c == request'.client IN
            /\ request'.op = "admitted"
                  <=> (hits[c] < GeneralMax /\ aiHits[c] < AiMax)
            /\ response' = tooMany(AiMessage)
                  <=> (hits[c] < GeneralMax /\ aiHits[c] >= AiMax)
            /\ hits[c] < GeneralMax => aiHits'[c] = aiHits[c] + 1
       /\ (Arrives /\ request'.route # AskRoute) =>
            /\ aiHits' = aiHits
            /\ response' # tooMany(AiMessage)
            /\ request'.op = "admitted" <=> hits[request'.client] < GeneralMax
       /\ request'.op = "ask" =>
            /\ request.op = "admitted"
            /\ request.route = AskRoute
            /\ hits[request.client] <= GeneralMax
            /\ aiHits[request.client] <= AiMax]_vars

\* the 11th AI request of a client is refused by the AI limiter although the
\* general limiter has budget left
C15_Witness ==
    /\ request.op = "limited"
    /\ request.route = AskRoute
    /\ response = tooMany(AiMessage)
    /\ aiHits[request.client] = AiMax + 1
    /\ hits[request.client] <= GeneralMax

\* a request for another route is admitted while the client is over the
\* budget of the AI limiter
C15_WitnessOtherRoute ==
    /\ request.op = "admitted"
    /\ request.route = HealthRoute
    /\ aiHits[request.client] = AiMax + 1

----------------------------------------------------------------------------
(* C16 *)

C16_WitnessCall ==
    /\ request.op = "ask"
    /\ response = NoResponse
    /\ pending # <<>>
    /\ \E c \in Clients : aiHits[c] = 1

----------------------------------------------------------------------------
(* C21 *)

\* the place of type t in the enumeration: the index of its first record
C21_FirstAt(store, t) ==
    CHOOSE i \in 1..Len(store) :
        store[i].type = t /\ \A j \in 1..(i - 1) : store[j].type # t

\* the types with the largest number of records
C21_MostCommon(store) ==
    {t \in Types : /\ CountBy(store, "type", t) > 0
                   /\ \A u \in Types :
                        CountBy(store, "type", u) <= CountBy(store, "type", t)}

C21_FirstOfTies(store) ==
    IF store = <<>> THEN "feature"
    ELSE CHOOSE t \in C21_MostCommon(store) :
            \A u \in C21_MostCommon(store) :
                C21_FirstAt(store, t) <= C21_FirstAt(store, u)

C21_LastOfTies(store) ==
    IF store = <<>> THEN "feature"
    ELSE CHOOSE t \in C21_MostCommon(store) :
            \A u \in C21_MostCommon(store) :
                C21_FirstAt(store, t) >= C21_FirstAt(store, u)

\* r is a local answer that names the most common type
C21_NamesType(r) ==
    /\ r.op = "ask"
    /\ Has(r, "data")
    /\ r.data.source = "mock"
    /\ r.data.answer[1] = "Based on your current feedback data ("

\* C21 as stated: the type named by the local answer has the largest number
\* of records; among several such types it is the one met first in the
\* enumeration; on the empty store it is "feature".
C21_FirstEncounteredOfTies ==
    [][C21_NamesType(response')
          => response'.data.answer[4] = C21_FirstOfTies(feedback)]_vars

\* C21 as amended: the type named by the local answer has the largest number
\* of records; among several such types it is the one met last in the
\* enumeration (the types in the order of their first record in storage); on
\* the empty store it is "feature".
C21_LastEncounteredOfTies ==
    [][C21_NamesType(response')
          => /\ response'.data.answer[4] = C21_LastOfTies(feedback)
             /\ feedback # <<>>
                  => response'.data.answer[4] \in C21_MostCommon(feedback)]_vars

\* two records of different types: the answer names the type of the older one
C21_Witness ==
    /\ C21_NamesType(response)
    /\ Len(feedback) = 2
    /\ feedback[1].type # feedback[2].type
    /\ response.data.answer[4] = feedback[2].type

----------------------------------------------------------------------------
(* C22 *)

\* C22: the storage sequence is newest first, its ids strictly decreasing
\* from head to tail, after every step; a create puts its record at the head
\* of the sequence, an update replaces the record where it is and moves none,
\* and a delete takes one record out and keeps the order of the others.
C22_NewestFirst ==
    [][/\ \A i \in 1..(Len(feedback') - 1) : feedback'[i].id > feedback'[i + 1].id
       /\ CreateOk(response') => feedback' = <<response'.data>> \o feedback
       /\ UpdateOk(response') =>
            /\ Len(feedback') = Len(feedback)
            /\ \A i \in 1..Len(feedback) :
                  /\ feedback'[i].id = feedback[i].id
                  /\ feedback'[i] # feedback[i] => feedback[i].id = request'.id
       /\ DeleteOk(response') =>
            \E i \in 1..Len(feedback) :
                /\ feedback[i].id = request'.id
                /\ feedback' = SubSeq(feedback, 1, i - 1)
                                  \o SubSeq(feedback, i + 1, Len(feedback))]_vars

\* the older of two records has been updated at a later time than the newer
\* one was created and is still at the tail
C22_Witness ==
    /\ UpdateOk(response)
    /\ Len(feedback) = 2
    /\ feedback[2].id = request.id
    /\ feedback[2].updatedAt > feedback[1].createdAt
    /\ feedback[1].id > feedback[2].id

----------------------------------------------------------------------------
(* C23 *)

\* C23: a get, an update or a delete of an id that no stored record has is
\* answered 404 "Feedback not found" and leaves the store and the id counter
\* as they were; for an update this holds whatever the body is, also for a
\* body with neither status nor priority.
C23_UnknownIdIsNotFound ==
    [][(/\ request'.op \in {"get", "update", "delete"}
        /\ request'.id \notin StoreIds(feedback))
          => /\ response' = NotFound(request'.op)
             /\ response'.status = 404
             /\ feedback' = feedback
             /\ feedbackIdCounter' = feedbackIdCounter]_vars

\* an update without status and priority of an id that is not in the
\* non-empty store has been answered 404
C23_Witness ==
    /\ request.op = "update"
    /\ request.id \notin StoreIds(feedback)
    /\ DOMAIN request.body = {"title"}
    /\ response.status = 404
    /\ feedback # <<>>

====
